---- MODULE Spec2Model ----
(***************************************************************************)
(* Model of the forest trading glue code:                                  *)
(*   agents/executor_agent.py   ExecutorAgent.run / _call_llm              *)
(*   utils/api_connectors.py    execute_trade / close_position /           *)
(*                              update_stop_loss                           *)
(*   core/data_collector.py     DataCollector                              *)
(* External collaborators (budget manager, memory, prompt template, LLM    *)
(* endpoint, broker, market-data provider, file system) are modelled by    *)
(* their observable outcomes: each call either returns one of a small set  *)
(* of values or raises.                                                    *)
(***************************************************************************)
EXTENDS Integers, Sequences, FiniteSets, TLC

VARIABLES
    \* ---- ExecutorAgent.run ----
    pc,         \* position of the run in executor_agent.py
    analysis,   \* the analysis_results argument
    events,     \* collaborator calls made so far, in order
    response,   \* the completion endpoint's response (local of _call_llm)
    usageLog,   \* arguments of budget_manager.log_usage calls
    parsed,     \* which parse of the response text succeeded
    result,     \* value returned by _call_llm
    feedback,   \* arguments of memory.update_feedback calls
    execLog,    \* records appended to data/executor_results.jsonl
    ret,        \* value returned by run
    raised,     \* TRUE when run ended by raising to its caller
    \* ---- api_connectors order functions ----
    cOp,        \* the connector function last called
    cIn,        \* its arguments
    cCalls,     \* broker endpoints it called, in order
    cBroker,    \* what the order endpoint did
    cRet,       \* the pair it returned
    \* ---- DataCollector ----
    dOp,        \* the collector method last called
    dIn,        \* its arguments and environment
    dCalls,     \* connector endpoints it called, in order
    dFail,      \* the underlying failures that happened during the call
    dRet,       \* the value it returned
    dRaised     \* TRUE when the method ended by raising

execVars == <<pc, analysis, events, response, usageLog, parsed, result,
              feedback, execLog, ret, raised>>
connVars == <<cOp, cIn, cCalls, cBroker, cRet>>
collVars == <<dOp, dIn, dCalls, dFail, dRet, dRaised>>
vars == <<execVars, connVars, collVars>>

\* ------------------------------------------------------------------ bounds
MaxTextLen == 6     \* tokens of a response text, response-parsing runs
MaxRespLen == 3     \* tokens of a response text, executor runs
MaxTokens == 1      \* largest prompt / completion token count
MaxRows == 2        \* rows of a positions table
MaxSize == 2        \* largest position size
MaxTf == 3          \* entries of a timeframes argument
MaxAccounts == 2    \* rows of the accounts table

\* --------------------------------------------------------- Python values
None == [type |-> "None"]
Unset == [type |-> "unset"]

\* Parsed JSON values, by what run looks at: type, truthiness, keys.
ObjSI == [type |-> "object", keys |-> {"self_improvement", "trade_actions"}]
ObjTA == [type |-> "object", keys |-> {"trade_actions"}]
ObjEmpty == [type |-> "object", keys |-> {}]
Arr == [type |-> "array", len |-> 1]

\* bool(v) for the values above
Truthy(v) ==
    CASE v = None -> FALSE
      [] v.type = "object" -> v.keys # {}
      [] v.type = "array" -> v.len > 0
      [] OTHER -> TRUE

\* ------------------------------------------------- response text, as tokens
\* A response text is a sequence of tokens. Fence stands for three backticks,
\* JsonWord for the four letters json right after a fence, Ws for a run of
\* whitespace, Junk for text that is no JSON, and the remaining tokens are
\* complete JSON documents.
Fence == "FENCE"
JsonWord == "json"
Ws == "\n"
Junk == "Here is my decision:"
TextSI == "{\"self_improvement\":\"s\",\"trade_actions\":[]}"
TextTA == "{\"trade_actions\":[]}"
TextEmpty == "{}"
TextArr == "[1]"
TextNull == "null"

JsonTexts == {TextSI, TextTA, TextEmpty, TextArr, TextNull}
Tokens == {Fence, JsonWord, Ws, Junk} \cup JsonTexts
RespTokens == {Fence, Junk} \cup JsonTexts
ParseTokens == {Fence, JsonWord, Ws, Junk, TextTA}

SeqsUpTo(S, n) == UNION {[1..k -> S] : k \in 0..n}
ParseTexts == SeqsUpTo(ParseTokens, MaxTextLen)
RespTexts == SeqsUpTo(RespTokens, MaxRespLen)

JSONDecodeError == [type |-> "JSONDecodeError"]

JsonValue(tok) ==
    CASE tok = TextSI -> ObjSI
      [] tok = TextTA -> ObjTA
      [] tok = TextEmpty -> ObjEmpty
      [] tok = TextArr -> Arr
      [] tok = TextNull -> None

\* index of the first / last token of s that is not whitespace
FirstNonWs(s) ==
    IF \E i \in 1..Len(s) : s[i] # Ws
    THEN CHOOSE i \in 1..Len(s) : s[i] # Ws /\ \A j \in 1..(i-1) : s[j] = Ws
    ELSE Len(s) + 1
LastNonWs(s) ==
    IF \E i \in 1..Len(s) : s[i] # Ws
    THEN CHOOSE i \in 1..Len(s) : s[i] # Ws /\ \A j \in (i+1)..Len(s) : s[j] = Ws
    ELSE 0

\* json.loads(s): leading and trailing whitespace is skipped and exactly one
\* JSON document must remain.
JsonLoads(s) ==
    LET a == FirstNonWs(s)
        b == LastNonWs(s)
    IN  IF a = b /\ a \in 1..Len(s) /\ s[a] \in JsonTexts
        THEN JsonValue(s[a])
        ELSE JSONDecodeError

NoMatch == <<"no match">>

\* re.search(r'FENCE(?:json)?\s*([\s\S]*?)\s*FENCE', s): group(1) of the
\* leftmost match, or NoMatch. The leftmost fence that has a later fence opens
\* the match; json and whitespace after it are skipped greedily; the lazy
\* group ends before the whitespace run in front of the next fence.
ReSearchLast(s) ==
    LET F == {i \in 1..Len(s) : s[i] = Fence}
    IN  IF Cardinality(F) < 2 THEN NoMatch
        ELSE LET b == CHOOSE i \in F : \A j \in F : j <= i
                 a == CHOOSE i \in F : i < b /\ \A j \in F : j < b => j <= i
             IN  <<"group", SubSeq(s, a + 1, b - 1)>>
ReSearch(s) ==
    LET F == {i \in 1..Len(s) : s[i] = Fence}
    IN  IF Cardinality(F) < 2 THEN NoMatch
        ELSE LET i == CHOOSE k \in F : \A j \in F : k <= j
                 p1 == IF s[i + 1] = JsonWord THEN i + 2 ELSE i + 1
                 p == CHOOSE k \in p1..Len(s) :
                        s[k] # Ws /\ \A j \in p1..(k-1) : s[j] = Ws
                 f == CHOOSE k \in F : k >= p /\ \A j \in F : j >= p => k <= j
                 q == CHOOSE k \in p..f :
                        /\ \A j \in k..(f-1) : s[j] = Ws
                        /\ \A m \in p..(k-1) : \E j \in m..(f-1) : s[j] # Ws
             IN  <<"group", SubSeq(s, p, q - 1)>>

\* _calculate_cost, in units of 10^-5 dollars:
\* (tokens_in * 0.03 + tokens_out * 0.06) / 1000 dollars
CalculateCostFlat(tokens_in, tokens_out) == 3 * tokens_in + 3 * tokens_out
CalculateCost(tokens_in, tokens_out) == 3 * tokens_in + 6 * tokens_out

\* ================================================== ExecutorAgent (run)
Falsy == {"None", "empty"}      \* analysis_results values with bool() False
AnalysisInputs == {"None", "empty", "some"}

ExecIdle ==
    /\ pc = "idle" /\ analysis = "None" /\ events = <<>> /\ response = None
    /\ usageLog = <<>> /\ parsed = "no" /\ result = Unset /\ feedback = <<>>
    /\ execLog = <<>> /\ ret = Unset /\ raised = FALSE

\* run is entered with its arguments bound and nothing done yet
ExecInit ==
    /\ pc = "start"
    /\ analysis \in AnalysisInputs
    /\ events = <<>>
    /\ response = None
    /\ usageLog = <<>>
    /\ parsed = "no"
    /\ result = Unset
    /\ feedback = <<>>
    /\ execLog = <<>>
    /\ ret = Unset
    /\ raised = FALSE

\* run's handler: except Exception -> log, return None
RunExceptReraise ==
    /\ pc' = "done"
    /\ ret' = Unset
    /\ raised' = TRUE
RunExcept ==
    /\ pc' = "done"
    /\ ret' = None
    /\ raised' = FALSE

\* _call_llm's handler: except Exception -> log, return None
CallLlmExcept ==
    /\ pc' = "result"
    /\ result' = None

\* if not analysis_results: return None
CheckAnalysis ==
    /\ UNCHANGED <<connVars, collVars>>
    /\ pc = "start"
    /\ IF analysis \in Falsy
       THEN /\ pc' = "done" /\ ret' = None
       ELSE /\ pc' = "memory" /\ ret' = ret
    /\ UNCHANGED <<analysis, events, response, usageLog, parsed, result,
                   feedback, execLog, raised>>

\* memory.get_recent_trades(5); memory.get_all_trades()
ReadMemory ==
    /\ UNCHANGED <<connVars, collVars>>
    /\ pc = "memory"
    /\ \E o \in {"ok", "recent raises", "all raises"} :
         /\ events' = IF o = "recent raises"
                      THEN Append(events, <<"get_recent_trades">>)
                      ELSE events \o << <<"get_recent_trades">>, <<"get_all_trades">> >>
         /\ IF o = "ok"
            THEN /\ pc' = "prompt" /\ UNCHANGED <<ret, raised>>
            ELSE RunExcept
    /\ UNCHANGED <<analysis, response, usageLog, parsed, result, feedback, execLog>>

\* CollaborativeTradingPrompts.decision_maker(...)
BuildPrompt ==
    /\ UNCHANGED <<connVars, collVars>>
    /\ pc = "prompt"
    /\ events' = Append(events, <<"decision_maker">>)
    /\ \E ok \in BOOLEAN :
         IF ok THEN /\ pc' = "budget" /\ UNCHANGED <<ret, raised>>
               ELSE RunExcept
    /\ UNCHANGED <<analysis, response, usageLog, parsed, result, feedback, execLog>>

\* if not self.budget_manager.can_spend(self.cost_estimate): return None
CheckBudgetIgnored ==
    /\ UNCHANGED <<connVars, collVars>>
    /\ pc = "budget"
    /\ \E o \in {"True", "False", "raises"} :
         /\ events' = Append(events, <<"can_spend", o>>)
         /\ IF o = "raises" THEN RunExcept
            ELSE /\ pc' = "llm" /\ UNCHANGED <<ret, raised>>
    /\ UNCHANGED <<analysis, response, usageLog, parsed, result, feedback, execLog>>
CheckBudget ==
    /\ UNCHANGED <<connVars, collVars>>
    /\ pc = "budget"
    /\ \E o \in {"True", "False", "raises"} :
         /\ events' = Append(events, <<"can_spend", o>>)
         /\ CASE o = "raises" -> RunExcept
              [] o = "False" -> /\ pc' = "done" /\ ret' = None /\ raised' = raised
              [] o = "True" -> /\ pc' = "llm" /\ UNCHANGED <<ret, raised>>
    /\ UNCHANGED <<analysis, response, usageLog, parsed, result, feedback, execLog>>

\* response = openai.chat.completions.create(**params)
CallCreate ==
    /\ UNCHANGED <<connVars, collVars>>
    /\ pc = "llm"
    /\ \/ /\ events' = Append(events, <<"create", "raises">>)
          /\ CallLlmExcept
          /\ response' = response
       \/ /\ events' = Append(events, <<"create", "returns">>)
          /\ \E t \in RespTexts, tin \in 0..MaxTokens, tout \in 0..MaxTokens :
               response' = [content |-> t, prompt_tokens |-> tin,
                            completion_tokens |-> tout]
          /\ pc' = "usage"
          /\ result' = result
    /\ UNCHANGED <<analysis, usageLog, parsed, feedback, execLog, ret, raised>>

\* usage = response.usage ... self.budget_manager.log_usage("executor", ...)
LogUsage ==
    /\ UNCHANGED <<connVars, collVars>>
    /\ pc = "usage"
    /\ events' = Append(events, <<"log_usage">>)
    /\ usageLog' = Append(usageLog,
          [agent |-> "executor",
           tokens_in |-> response.prompt_tokens,
           tokens_out |-> response.completion_tokens,
           cost |-> CalculateCost(response.prompt_tokens,
                                  response.completion_tokens)])
    /\ \E ok \in BOOLEAN :
         IF ok THEN /\ pc' = "parse" /\ result' = result
               ELSE CallLlmExcept
    /\ UNCHANGED <<analysis, response, parsed, feedback, execLog, ret, raised>>

\* try: return json.loads(result)
DirectParse ==
    /\ UNCHANGED <<connVars, collVars>>
    /\ pc = "parse"
    /\ events' = Append(events, <<"json.loads">>)
    /\ LET v == JsonLoads(response.content)
       IN  IF v # JSONDecodeError
           THEN /\ result' = v /\ parsed' = "direct" /\ pc' = "result"
           ELSE /\ pc' = "fenced" /\ UNCHANGED <<result, parsed>>
    /\ UNCHANGED <<analysis, response, usageLog, feedback, execLog, ret, raised>>

\* except json.JSONDecodeError: re.search(...), json.loads(group(1)) or None
FencedParse ==
    /\ UNCHANGED <<connVars, collVars>>
    /\ pc = "fenced"
    /\ events' = Append(events, <<"re.search">>)
    /\ LET m == ReSearch(response.content)
           v == IF m = NoMatch THEN JSONDecodeError ELSE JsonLoads(m[2])
       IN  IF v # JSONDecodeError
           THEN /\ result' = v /\ parsed' = "fenced"
           ELSE /\ result' = None /\ parsed' = parsed
    /\ pc' = "result"
    /\ UNCHANGED <<analysis, response, usageLog, feedback, execLog, ret, raised>>

\* if result: (log the counts) ... else: return None
HandleResult ==
    /\ UNCHANGED <<connVars, collVars>>
    /\ pc = "result"
    /\ response' = None       \* _call_llm's frame is gone
    /\ CASE ~Truthy(result) ->
              /\ pc' = "done" /\ ret' = None /\ raised' = raised
         [] Truthy(result) /\ result.type # "object" ->
              RunExcept       \* result.get: AttributeError
         [] Truthy(result) /\ result.type = "object" ->
              /\ pc' = IF "self_improvement" \in result.keys
                       THEN "feedback" ELSE "save"
              /\ UNCHANGED <<ret, raised>>
    /\ UNCHANGED <<analysis, events, usageLog, parsed, result, feedback, execLog>>

\* memory.update_feedback("executor", result["self_improvement"])
UpdateFeedback ==
    /\ UNCHANGED <<connVars, collVars>>
    /\ pc = "feedback"
    /\ events' = Append(events, <<"update_feedback">>)
    /\ feedback' = Append(feedback, <<"executor", result>>)
    /\ \E ok \in BOOLEAN :
         IF ok THEN /\ pc' = "save" /\ UNCHANGED <<ret, raised>>
               ELSE RunExcept
    /\ UNCHANGED <<analysis, response, usageLog, parsed, result, execLog>>

\* self._save_response(result); return result
SaveResponse ==
    /\ UNCHANGED <<connVars, collVars>>
    /\ pc = "save"
    /\ \E written \in BOOLEAN :
         /\ events' = Append(events, <<"open", IF written THEN "written" ELSE "raises">>)
         /\ execLog' = IF written THEN Append(execLog, [result |-> result])
                       ELSE execLog   \* open/write failed: logged, swallowed
    /\ ret' = result
    /\ pc' = "done"
    /\ UNCHANGED <<analysis, response, usageLog, parsed, result, feedback, raised>>

ExecNext ==
    \/ CheckAnalysis
    \/ ReadMemory
    \/ BuildPrompt
    \/ CheckBudget
    \/ CallCreate
    \/ LogUsage
    \/ DirectParse
    \/ FencedParse
    \/ HandleResult
    \/ UpdateFeedback
    \/ SaveResponse

\* ------------------------------------------------ response parsing alone
\* _call_llm at its parse step, for every response text up to MaxTextLen
ParseInit ==
    /\ pc = "parse"
    /\ analysis = "some"
    /\ events = <<>>
    /\ \E t \in ParseTexts :
         response = [content |-> t, prompt_tokens |-> 0, completion_tokens |-> 0]
    /\ usageLog = <<>>
    /\ parsed = "no"
    /\ result = Unset
    /\ feedback = <<>>
    /\ execLog = <<>>
    /\ ret = Unset
    /\ raised = FALSE

ParseNext ==
    \/ DirectParse
    \/ FencedParse

\* ============================================== api_connectors order calls
DealIds == {"D1", "D2"}
Directions == {"BUY", "SELL"}
Statuses == {"ACCEPTED", "REJECTED", "missing"}   \* response.get("dealStatus")
ExcTexts == {"HTTP 500", "timed out"}             \* str(e) of a broker error

\* what the broker's order endpoint does when called
BrokerBehaviours ==
    {<<"returns", st>> : st \in Statuses} \cup {<<"raises", t>> : t \in ExcTexts}
NotCalled == <<"not called", "">>

\* positions: the DataFrame of open positions. pd.DataFrame() has no columns.
PositionRows == [dealId : DealIds, direction : Directions, size : 1..MaxSize]
PositionTables ==
    {[columns |-> FALSE, rows |-> <<>>]} \cup
    {[columns |-> TRUE, rows |-> r] : r \in SeqsUpTo(PositionRows, MaxRows)}

Trades == [epic : {"CS.D.EURUSD.TODAY.IP"}, direction : Directions,
           size : {"0.5", "missing"}]
CloseActions == [dealId : DealIds \cup {"None"}, epic : {"CS.D.EURUSD.TODAY.IP"},
                 direction : Directions, size : 1..MaxSize,
                 reason : {"take profit"}]
UpdateActions == [dealId : DealIds, epic : {"CS.D.EURUSD.TODAY.IP"},
                  new_level : {"1.0850", "None"}, reason : {"trail stop"}]

ConnInit ==
    /\ cOp = "none"
    /\ cIn = <<>>
    /\ cCalls = <<>>
    /\ cBroker = NotCalled
    /\ cRet = <<>>

\* "outcome": ... if response.get("dealStatus") == "ACCEPTED" else "FAILED"
TradeOutcome(status) == IF status = "ACCEPTED" THEN "EXECUTED" ELSE "FAILED"
CloseOutcomeAny(status) == "CLOSED"
CloseOutcome(status) == IF status = "ACCEPTED" THEN "CLOSED" ELSE "FAILED"
UpdateOutcome(status) == IF status = "ACCEPTED" THEN "UPDATED" ELSE "FAILED"

\* except Exception as e: return False, {"outcome": "ERROR", "reason": str(e)}
ConnExcept(text) == <<FALSE, [outcome |-> "ERROR", reason |-> text]>>

\* position = positions[positions["dealId"] == deal_id]
MatchingRows(positions, deal_id) ==
    SelectSeq(positions.rows, LAMBDA r : r.dealId = deal_id)

\* "SELL" if direction == "BUY" else "BUY"
CloseDirectionSame(direction) == direction
CloseDirection(direction) == IF direction = "BUY" THEN "SELL" ELSE "BUY"

\* execute_trade(ig_service, trade)
ExecuteTrade ==
    /\ cOp = "none"
    /\ cOp' = "execute_trade"
    /\ \E trade \in Trades, precheck \in {"ok", "raises"} :
         /\ cIn' = [trade |-> trade, precheck |-> precheck]
         \* the balance check has its own try/except: a failure is only logged
         /\ IF trade.size = "missing"
            THEN /\ cCalls' = << <<"fetch_accounts">> >>
                 /\ cBroker' = NotCalled
                 /\ cRet' = ConnExcept("'size'")           \* KeyError
            ELSE /\ cCalls' = << <<"fetch_accounts">>,
                                 <<"create_open_position", trade.epic,
                                   trade.direction, trade.size>> >>
                 /\ \E b \in BrokerBehaviours :
                      /\ cBroker' = b
                      /\ cRet' = IF b[1] = "raises"
                                 THEN ConnExcept(b[2])
                                 ELSE <<TRUE,
                                        [epic |-> trade.epic,
                                         direction |-> trade.direction,
                                         size |-> trade.size,
                                         outcome |-> TradeOutcome(b[2]),
                                         reason |-> ""]>>
    /\ UNCHANGED <<execVars, collVars>>

\* close_position(ig_service, position_action, positions)
ClosePosition ==
    /\ cOp = "none"
    /\ cOp' = "close_position"
    /\ \E pa \in CloseActions, positions \in PositionTables :
         /\ cIn' = [position_action |-> pa, positions |-> positions]
         /\ IF ~positions.columns
            THEN /\ cCalls' = <<>>
                 /\ cBroker' = NotCalled
                 /\ cRet' = ConnExcept("'dealId'")         \* KeyError
            ELSE LET position == MatchingRows(positions, pa.dealId)
                 IN  IF position = <<>>
                     THEN /\ cCalls' = <<>>
                          /\ cBroker' = NotCalled
                          /\ cRet' = <<FALSE, [outcome |-> "FAILED",
                                        reason |-> "Position not found"]>>
                     ELSE /\ cCalls' = << <<"close_open_position", pa.dealId,
                                            CloseDirection(position[1].direction),
                                            position[1].size>> >>
                          /\ \E b \in BrokerBehaviours :
                               /\ cBroker' = b
                               /\ cRet' = IF b[1] = "raises"
                                          THEN ConnExcept(b[2])
                                          ELSE <<TRUE,
                                                 [epic |-> pa.epic,
                                                  direction |-> "CLOSE",
                                                  outcome |-> CloseOutcome(b[2]),
                                                  deal_id |-> pa.dealId,
                                                  reason |-> pa.reason]>>
    /\ UNCHANGED <<execVars, collVars>>

\* update_stop_loss(ig_service, position_action)
UpdateStopLoss ==
    /\ cOp = "none"
    /\ cOp' = "update_stop_loss"
    /\ \E pa \in UpdateActions :
         /\ cIn' = [position_action |-> pa]
         /\ IF pa.new_level = "None"
            THEN /\ cCalls' = <<>>
                 /\ cBroker' = NotCalled
                 /\ cRet' = ConnExcept("float() argument must be a string or a number")
            ELSE /\ cCalls' = << <<"update_open_position", pa.dealId,
                                   pa.new_level>> >>
                 /\ \E b \in BrokerBehaviours :
                      /\ cBroker' = b
                      /\ cRet' = IF b[1] = "raises"
                                 THEN ConnExcept(b[2])
                                 ELSE <<TRUE,
                                        [epic |-> pa.epic,
                                         action_type |-> "UPDATE_STOP",
                                         deal_id |-> pa.dealId,
                                         new_level |-> pa.new_level,
                                         outcome |-> UpdateOutcome(b[2]),
                                         reason |-> pa.reason]>>
    /\ UNCHANGED <<execVars, collVars>>

ConnNext ==
    \/ ExecuteTrade
    \/ ClosePosition
    \/ UpdateStopLoss

\* ========================================================== DataCollector
EmptyMap == [k \in {} |-> None]                 \* {}
EmptyTable == [columns |-> FALSE, rows |-> <<>>]  \* pd.DataFrame()

\* An instrument code, as the parts a substring test can tell apart:
\* "CS.D.EURUSD.TODAY.IP" is <<"CS.D.", "EUR", "USD", ".TODAY.IP">>.
Epic(a, b) == <<"CS.D.", a, b, ".TODAY.IP">>
Ticker(a, b) == [ticker |-> <<"C:", a, b>>]

\* ticker_map
TickerPairs ==
    { <<"EUR", "USD">>, <<"USD", "JPY">>, <<"GBP", "USD">>, <<"AUD", "USD">>,
      <<"USD", "CAD">>, <<"USD", "CHF">>, <<"NZD", "USD">>, <<"EUR", "JPY">>,
      <<"EUR", "GBP">>, <<"GBP", "JPY">>, <<"AUD", "JPY">>, <<"AUD", "NZD">> }
TickerKeys == {Epic(p[1], p[2]) : p \in TickerPairs}

\* ticker_map.get(epic)
TickerMapGetAny(epic) ==
    IF Len(epic) = 4 THEN Ticker(epic[2], epic[3]) ELSE None
TickerMapGet(epic) ==
    IF epic \in TickerKeys THEN Ticker(epic[2], epic[3]) ELSE None

UnknownEpics ==
    { Epic("USD", "SEK"), Epic("CHF", "JPY"),
      <<"CS.D.", "EUR", "USD", ".MINI.IP">>, <<>> }
Epics == {Epic("EUR", "USD"), Epic("USD", "JPY"), Epic("AUD", "NZD")}
         \cup UnknownEpics

\* A timeframe string, split at ":" ("15:minute" is <<"15", "minute">>), or
\* Malformed for a config without the "timeframe" / "lookback_days" keys.
Malformed == <<"config without timeframe">>
TimeframeConfigs == { <<"15", "minute">>, <<"hour">>, <<"x", "minute">>, Malformed }
TimeframeKeys == <<"m15", "h1", "h4", "d1", "w1">>
DefaultTimeframes == << <<"15", "minute">>, <<"hour">>, <<"4", "hour">> >>
\* timeframes argument: None, or a mapping given as its values in order
TimeframeArgs ==
    {None} \cup {[items |-> s] : s \in SeqsUpTo(TimeframeConfigs, MaxTf)}

IntOf(str) ==
    CASE str = "15" -> 15
      [] str = "4" -> 4
      [] OTHER -> -1          \* int() raises ValueError

\* lines 75-85: <<multiplier, timespan>>, or <<>> when the config raises
ParseTimeframe(config) ==
    IF config = Malformed THEN <<>>
    ELSE IF Len(config) > 1
         THEN IF IntOf(config[1]) < 0 THEN <<>>
              ELSE <<IntOf(config[1]), config[2]>>
         ELSE <<1, config[1]>>

\* the for loop of get_market_data over timeframes.items(); outs[i] is what
\* get_aggs does at the i-th entry. fail names the failure that ended it.
RECURSIVE FetchLoop(_, _, _, _, _)
FetchLoop(ticker, tfs, outs, i, acc) ==
    IF i > Len(tfs) THEN acc
    ELSE LET p == ParseTimeframe(tfs[i])
         IN  IF p = <<>>
             THEN [acc EXCEPT !.fail = "timeframe config"]
             ELSE LET called == Append(acc.calls, <<"get_aggs", ticker, p[1], p[2]>>)
                  IN  CASE outs[i] = "raises" ->
                             [acc EXCEPT !.calls = called, !.fail = "get_aggs"]
                        [] outs[i] = "empty" ->
                             FetchLoop(ticker, tfs, outs, i + 1,
                                       [acc EXCEPT !.calls = called])
                        [] outs[i] = "bars" ->
                             FetchLoop(ticker, tfs, outs, i + 1,
                                       [acc EXCEPT !.calls = called,
                                           !.keys = @ \cup {TimeframeKeys[i]}])

\* the broker's market snapshot: raw point values, each possibly missing
RawValues == {None, [pts |-> 10000]}
SnapshotBehaviours ==
    {<<"raises">>, <<"no snapshot">>} \cup
    {<<"snapshot", b, o>> : b \in RawValues, o \in RawValues}

ContainsJPY(epic) == \E i \in 1..Len(epic) : epic[i] = "JPY"
DivisorFlat(epic) == 10000
Divisor(epic) == IF ContainsJPY(epic) THEN 100 ELSE 10000

\* raw / divisor, in units of 10^-4
Scale(raw, divisor) ==
    IF raw = None THEN None ELSE [e4 |-> (raw.pts * 10000) \div divisor]

\* get_price_snapshot(epic): the snapshot record, or None
GetPriceSnapshot(epic, b) ==
    IF b[1] = "snapshot"
    THEN [bid |-> Scale(b[2], Divisor(epic)),
          offer |-> Scale(b[3], Divisor(epic)),
          epic |-> epic]
    ELSE None

CollInit ==
    /\ dOp = "none"
    /\ dIn = <<>>
    /\ dCalls = <<>>
    /\ dFail = {}
    /\ dRet = <<>>
    /\ dRaised = FALSE

AccountIds == {"INRKZ", "ABC12"}
EnvAccountIds == {"unset", "INRKZ", "ZZZ99"}     \* os.getenv("IG_ACCOUNT_ID")
AccountTables == SeqsUpTo(AccountIds, MaxAccounts)

\* get_account_data's handler: return {}
AccountExcept ==
    /\ dRet' = EmptyMap
    /\ dRaised' = FALSE

\* get_account_data(self)
GetAccountData ==
    /\ dOp = "none"
    /\ dOp' = "get_account_data"
    /\ dCalls' = << <<"fetch_accounts">> >>
    /\ \E env \in EnvAccountIds :
         \/ /\ dIn' = [env |-> env, accounts |-> "raises"]
            /\ dFail' = {"fetch_accounts"}
            /\ AccountExcept
         \/ \E accounts \in AccountTables :
              /\ dIn' = [env |-> env, accounts |-> accounts]
              /\ LET account == IF env # "unset"
                                THEN SelectSeq(accounts, LAMBDA a : a = env)
                                ELSE IF accounts = <<>> THEN <<>>
                                     ELSE <<accounts[1]>>
                 IN  IF account = <<>>      \* iloc raises IndexError
                     THEN /\ dFail' = {"no account"}
                          /\ AccountExcept
                     ELSE /\ dFail' = {}
                          /\ dRet' = [accountId |-> account[1]]
                          /\ dRaised' = FALSE
    /\ UNCHANGED <<execVars, connVars>>

\* get_positions(self)
GetPositions ==
    /\ dOp = "none"
    /\ dOp' = "get_positions"
    /\ dCalls' = << <<"fetch_open_positions">> >>
    /\ dRaised' = FALSE
    /\ \/ /\ dIn' = [positions |-> "raises"]
          /\ dFail' = {"fetch_open_positions"}
          /\ dRet' = EmptyTable
       \/ \E t \in PositionTables :
            /\ dIn' = [positions |-> t]
            /\ dFail' = {}
            /\ dRet' = t
    /\ UNCHANGED <<execVars, connVars>>

\* get_market_data's handler: return {}
MarketExceptPartial(keys) ==
    /\ dRet' = [k \in keys |-> [bars |-> TRUE]]
    /\ dRaised' = FALSE
MarketExcept(keys) ==
    /\ dRet' = EmptyMap
    /\ dRaised' = FALSE

\* get_market_data(self, epic, timeframes=None)
GetMarketData ==
    /\ dOp = "none"
    /\ dOp' = "get_market_data"
    /\ \E epic \in Epics, arg \in TimeframeArgs :
         LET tfs == IF arg = None THEN DefaultTimeframes ELSE arg.items
             ticker == TickerMapGet(epic)
         IN  IF ticker = None
             THEN /\ dIn' = [epic |-> epic, timeframes |-> arg]
                  /\ dCalls' = <<>>
                  /\ dFail' = {}
                  /\ dRet' = EmptyMap
                  /\ dRaised' = FALSE
             ELSE \E outs \in [1..Len(tfs) -> {"bars", "empty", "raises"}],
                     snap \in SnapshotBehaviours :
                    LET loop == FetchLoop(ticker, tfs, outs, 1,
                                  [keys |-> {}, calls |-> <<>>, fail |-> "no"])
                        snapshot == GetPriceSnapshot(epic, snap)
                    IN  /\ dIn' = [epic |-> epic, timeframes |-> arg,
                                    aggs |-> outs, market |-> snap]
                        /\ IF loop.fail # "no"
                           THEN /\ dCalls' = loop.calls
                                /\ dFail' = {loop.fail}
                                /\ MarketExcept(loop.keys)
                           ELSE /\ dCalls' = Append(loop.calls,
                                               <<"fetch_market_by_epic", epic>>)
                                /\ dFail' = IF snap[1] = "raises"
                                            THEN {"fetch_market_by_epic"} ELSE {}
                                /\ dRet' = [k \in loop.keys \cup
                                              (IF snapshot # None THEN {"current"}
                                               ELSE {}) |->
                                            IF k = "current" THEN snapshot
                                            ELSE [bars |-> TRUE]]
                                /\ dRaised' = FALSE
    /\ UNCHANGED <<execVars, connVars>>

\* raw point values the broker reports when get_price_snapshot is called
SnapshotRaws == {None} \cup {[pts |-> n] : n \in {0, 10000, 15025}}
SnapshotCallBehaviours ==
    {<<"raises">>, <<"no snapshot">>} \cup
    {<<"snapshot", b, o>> : b \in SnapshotRaws, o \in SnapshotRaws}

\* get_price_snapshot(self, epic), called on its own
GetPriceSnapshotCall ==
    /\ dOp = "none"
    /\ dOp' = "get_price_snapshot"
    /\ \E epic \in Epics, b \in SnapshotCallBehaviours :
         /\ dIn' = [epic |-> epic, market |-> b]
         /\ dCalls' = << <<"fetch_market_by_epic", epic>> >>
         /\ dFail' = IF b[1] = "raises" THEN {"fetch_market_by_epic"} ELSE {}
         /\ dRet' = GetPriceSnapshot(epic, b)
         /\ dRaised' = FALSE
    /\ UNCHANGED <<execVars, connVars>>

CollNext ==
    \/ GetAccountData
    \/ GetPositions
    \/ GetMarketData
    \/ GetPriceSnapshotCall

\* ========================================================= specifications
InitExecutor == ExecInit /\ ConnInit /\ CollInit
InitParse == ParseInit /\ ConnInit /\ CollInit
InitIdle == ExecIdle /\ ConnInit /\ CollInit

SpecExecutor == InitExecutor /\ [][ExecNext]_vars
SpecParse == InitParse /\ [][ParseNext]_vars
SpecConnector == InitIdle /\ [][ConnNext]_vars
SpecCollector == InitIdle /\ [][CollNext]_vars

\* ================================================================ claims
\* a collaborator call named name has been made / made with outcome o
Called(name) == \E i \in 1..Len(events) : events[i][1] = name
CalledWith(name, o) == \E i \in 1..Len(events) : events[i] = <<name, o>>
BudgetRejected == CalledWith("can_spend", "False")

\* C1: when can_spend returns False the completion endpoint is not called,
\* log_usage is not called, nothing is appended to the executor log, memory
\* feedback is not updated and run returns None; and every call of the
\* completion endpoint comes after a can_spend check that returned True.
C1_BudgetGate ==
    /\ BudgetRejected =>
         /\ ~Called("create")
         /\ ~Called("log_usage") /\ usageLog = <<>>
         /\ execLog = <<>>
         /\ ~Called("update_feedback") /\ feedback = <<>>
         /\ pc = "done" /\ ret = None /\ ~raised
    /\ \A j \in 1..Len(events) :
         events[j][1] = "create" =>
           \E i \in 1..(j - 1) : events[i] = <<"can_spend", "True">>
C1_Witness ==
    /\ analysis = "some" /\ BudgetRejected /\ pc = "done" /\ ret = None

\* C2: the success flag of execute_trade, close_position and update_stop_loss
\* is True only when the broker's dealStatus is ACCEPTED; any other status,
\* and any exception of the broker call, gives flag False with an outcome
\* record.
C2_FlagOnlyWhenAccepted ==
    cOp # "none" =>
      /\ cRet[1] = TRUE => cBroker = <<"returns", "ACCEPTED">>
      /\ cBroker[1] = "returns" /\ cBroker[2] # "ACCEPTED" => cRet[1] = FALSE
      /\ cBroker[1] = "raises" => cRet[1] = FALSE /\ cRet[2].outcome = "ERROR"

\* C3: close_position with a dealId that matches no row of the positions
\* table returns exactly (False, {outcome: FAILED, reason: Position not
\* found}) and calls no broker endpoint.
C3_NotFound ==
    (/\ cOp = "close_position"
     /\ cIn.position_action.dealId \in DealIds
     /\ \A i \in 1..Len(cIn.positions.rows) :
          cIn.positions.rows[i].dealId # cIn.position_action.dealId)
    => /\ cRet = <<FALSE, [outcome |-> "FAILED", reason |-> "Position not found"]>>
       /\ cCalls = <<>>

\* C4: run never raises to its caller; on every failure path (empty or
\* missing analysis, budget rejection, a collaborator or the LLM endpoint
\* raising, unparsable response) it returns None, and it returns a decision
\* only when the response was parsed, and then the parsed value.
C4_NeverRaises ==
    /\ ~raised
    /\ pc = "done" =>
         /\ ret # Unset
         /\ analysis \in Falsy => ret = None
         /\ BudgetRejected => ret = None
         /\ CalledWith("create", "raises") => ret = None
         /\ ~Called("create") => ret = None
         /\ parsed = "no" => ret = None
         /\ ret # None => parsed # "no" /\ ret = result
C4_Witness ==
    /\ pc = "done" /\ ret = None /\ ~raised
    /\ parsed = "direct" /\ Called("update_feedback") /\ ~Called("open")

\* C5: every successful parse of the LLM response, whatever the parsed value
\* and whatever update_feedback does, has appended one record holding the
\* parsed value to the executor log when run returns (the log file being
\* writable); without a successful parse nothing is appended.
C5_EveryParseLogged ==
    pc = "done" /\ ~CalledWith("open", "raises") =>
      /\ parsed # "no" => execLog = <<[result |-> result]>>
      /\ parsed = "no" => execLog = <<>>

Outcomes == {"EXECUTED", "FAILED", "ERROR", "CLOSED", "UPDATED"}
\* the outcome the function named op gives for an accepted order
AcceptedOutcome(op) ==
    CASE op = "execute_trade" -> "EXECUTED"
      [] op = "close_position" -> "CLOSED"
      [] op = "update_stop_loss" -> "UPDATED"
\* the order endpoint was not reached because building its arguments raised
ArgumentsRaised ==
    \/ cOp = "execute_trade" /\ cIn.trade.size = "missing"
    \/ cOp = "close_position" /\ ~cIn.positions.columns
    \/ cOp = "update_stop_loss" /\ cIn.position_action.new_level = "None"
\* what the outcome tag has in common in the claim and in its amendment
OutcomeByStatus ==
    /\ cRet[2].outcome \in Outcomes
    /\ \A o \in {"EXECUTED", "CLOSED", "UPDATED"} :
         cRet[2].outcome = o <=>
           o = AcceptedOutcome(cOp) /\ cBroker = <<"returns", "ACCEPTED">>
    /\ cBroker[1] = "returns" /\ cBroker[2] # "ACCEPTED" =>
         cRet[2].outcome = "FAILED"
    /\ cBroker[1] = "raises" =>
         cRet[2] = [outcome |-> "ERROR", reason |-> cBroker[2]]
    /\ cRet[2].outcome = "ERROR" <=> cBroker[1] = "raises" \/ ArgumentsRaised

FirstBlock(t) ==
    LET F == {i \in 1..Len(t) : t[i] = Fence}
        a == CHOOSE i \in F : \A j \in F : i <= j
        b == CHOOSE i \in F \ {a} : \A j \in F \ {a} : i <= j
        inner == SubSeq(t, a + 1, b - 1)
    IN  IF inner # <<>> /\ inner[1] = JsonWord THEN Tail(inner) ELSE inner
HasBlock(t) == Cardinality({i \in 1..Len(t) : t[i] = Fence}) >= 2
\* a text that is one fenced block wrapping the JSON document v
Wraps(t, v) ==
    /\ Len(t) >= 3 /\ t[1] = Fence /\ t[Len(t)] = Fence
    /\ \E k \in 2..(Len(t) - 1) :
         /\ t[k] = v
         /\ \A j \in (k + 1)..(Len(t) - 1) : t[j] = Ws
         /\ \A j \in 3..(k - 1) : t[j] = Ws
         /\ k > 2 => t[2] \in {JsonWord, Ws}

\* C7: _call_llm parses the response text in a fixed order: the direct JSON
\* parse first; only when it fails is the first fenced block located and its
\* contents parsed; the result is the direct parse, else the fenced parse,
\* else None. A fenced block wrapping valid JSON yields that JSON value; a
\* text that is neither JSON nor holds a fenced block of JSON yields None.
C7_ParseOrder ==
    /\ Called("re.search") =>
         \E i \in 1..Len(events) :
           /\ events[i] = <<"json.loads">>
           /\ \E j \in (i + 1)..Len(events) : events[j] = <<"re.search">>
    /\ pc = "fenced" => JsonLoads(response.content) = JSONDecodeError
    /\ pc = "result" =>
         LET t == response.content
             direct == JsonLoads(t)
             block == IF HasBlock(t) THEN JsonLoads(FirstBlock(t))
                      ELSE JSONDecodeError
         IN  /\ direct # JSONDecodeError =>
                  result = direct /\ parsed = "direct" /\ ~Called("re.search")
             /\ direct = JSONDecodeError /\ block # JSONDecodeError =>
                  result = block /\ parsed = "fenced"
             /\ direct = JSONDecodeError /\ block = JSONDecodeError =>
                  result = None /\ parsed = "no"
             /\ \A v \in JsonTexts : Wraps(t, v) => result = JsonValue(v)
             /\ ~HasBlock(t) /\ (\A i \in 1..Len(t) : t[i] \notin JsonTexts) =>
                  result = None
C7_Witness ==
    /\ pc = "result"
    /\ response.content = <<Fence, JsonWord, Ws, TextTA, Ws, Fence>>
    /\ parsed = "fenced"
    /\ result = ObjTA

\* C8: when the completion endpoint returns a response, log_usage is called
\* exactly once, for agent executor, with the response's token counts and
\* cost (0.03 * tokens_in + 0.06 * tokens_out) / 1000 (here in 10^-5
\* dollars), before the response is parsed and so whether or not it parses;
\* when the endpoint raises, log_usage is not called.
C8_UsageLogged ==
    /\ Len(usageLog) <= 1
    /\ Len(usageLog) = Cardinality({i \in 1..Len(events) : events[i][1] = "log_usage"})
    /\ CalledWith("create", "returns") /\ pc # "usage" =>
         /\ Len(usageLog) = 1
         /\ usageLog[1].agent = "executor"
         /\ usageLog[1].cost = 3 * usageLog[1].tokens_in + 6 * usageLog[1].tokens_out
         /\ response # None =>
              /\ usageLog[1].tokens_in = response.prompt_tokens
              /\ usageLog[1].tokens_out = response.completion_tokens
    /\ \A j \in 1..Len(events) :
         events[j] = <<"json.loads">> =>
           \E i \in 1..(j - 1) : events[i] = <<"log_usage">>
    /\ ~CalledWith("create", "returns") => usageLog = <<>> /\ ~Called("log_usage")
C8_Witness ==
    /\ pc = "done" /\ ret = None
    /\ Called("re.search") /\ parsed = "no"
    /\ usageLog = <<[agent |-> "executor", tokens_in |-> 1, tokens_out |-> 1,
                     cost |-> 9]>>

\* C9: for an instrument code that is no key of the 12-entry ticker table,
\* get_market_data returns an empty mapping without raising, whatever the
\* timeframes argument, and calls neither get_aggs nor the snapshot endpoint.
C9_UnknownEpic ==
    /\ Cardinality(TickerKeys) = 12
    /\ dOp = "get_market_data" /\ dIn.epic \notin TickerKeys =>
         /\ dRet = EmptyMap
         /\ ~dRaised
         /\ dCalls = <<>>
C9_Witness ==
    /\ dOp = "get_market_data"
    /\ dIn.epic = Epic("CHF", "JPY")
    /\ dIn.timeframes = [items |-> <<Malformed>>]
    /\ dRet = EmptyMap

\* the timeframe keys whose bars were fetched before the loop ended
BarsFetched ==
    LET tfs == IF dIn.timeframes = None THEN DefaultTimeframes
               ELSE dIn.timeframes.items
    IN  {TimeframeKeys[i] : i \in {k \in 1..Len(tfs) : dIn.aggs[k] = "bars"}}

\* C10 as stated: no collector method raises, and whenever an underlying
\* connector call (or processing its result) fails the method returns the
\* empty value of its shape.
C10_AnyFailureGivesEmpty ==
    /\ ~dRaised
    /\ dOp = "get_account_data" /\ dFail # {} => dRet = EmptyMap
    /\ dOp = "get_positions" /\ dFail # {} => dRet = EmptyTable
    /\ dOp = "get_market_data" /\ dFail # {} => dRet = EmptyMap

\* C10 amended: as stated for get_account_data, get_positions, and for a
\* failure of get_aggs or of a timeframe's processing at any entry of the
\* loop; a failure of the snapshot call only leaves out the current entry,
\* the bars fetched are returned.
C10_FailureHandling ==
    /\ ~dRaised
    /\ dOp = "get_account_data" /\ dFail # {} => dRet = EmptyMap
    /\ dOp = "get_positions" /\ dFail # {} => dRet = EmptyTable
    /\ dOp = "get_market_data" /\ dFail \cap {"get_aggs", "timeframe config"} # {} =>
         dRet = EmptyMap
    /\ dOp = "get_market_data" /\ dFail = {"fetch_market_by_epic"} =>
         dRet = [k \in BarsFetched |-> [bars |-> TRUE]]
C10_Witness ==
    /\ dOp = "get_market_data"
    /\ dFail = {"get_aggs"}
    /\ Len(dCalls) = 3
    /\ dIn.aggs[1] = "bars" /\ dIn.aggs[2] = "bars" /\ dIn.aggs[3] = "raises"
    /\ dRet = EmptyMap

\* the decimal price, in units of 10^-4, that the claim gives for a raw value
ClaimedPrice(raw, epic) ==
    IF raw = None THEN None
    ELSE IF \E i \in 1..Len(epic) : epic[i] = "JPY"
         THEN [e4 |-> raw.pts * 100]        \* raw / 100
         ELSE [e4 |-> raw.pts]              \* raw / 10000

\* C11: get_price_snapshot divides each raw point value by 100 when the
\* instrument code contains JPY and by 10000 otherwise, bid and offer alike;
\* a missing raw value stays None and the call does not fail. Raw bid 10000
\* is 100.00 for a JPY code and 1.00 for another code.
C11_SnapshotScaling ==
    /\ dOp = "get_price_snapshot" /\ dIn.market[1] = "snapshot" =>
         /\ ~dRaised
         /\ dRet # None
         /\ dRet.bid = ClaimedPrice(dIn.market[2], dIn.epic)
         /\ dRet.offer = ClaimedPrice(dIn.market[3], dIn.epic)
         /\ dRet.epic = dIn.epic
         /\ dIn.market[2] = [pts |-> 10000] =>
              dRet.bid = IF dIn.epic \in {Epic("USD", "JPY"), Epic("CHF", "JPY")}
                         THEN [e4 |-> 1000000] ELSE [e4 |-> 10000]
    /\ dOp = "get_price_snapshot" /\ dIn.market[1] # "snapshot" =>
         dRet = None /\ ~dRaised
    /\ dOp = "get_market_data" /\ dFail = {} /\ dCalls # <<>>
         /\ dIn.market[1] = "snapshot" =>
         /\ dRet["current"].bid = ClaimedPrice(dIn.market[2], dIn.epic)
         /\ dRet["current"].offer = ClaimedPrice(dIn.market[3], dIn.epic)
C11_Witness ==
    /\ dOp = "get_price_snapshot"
    /\ dIn.epic = Epic("USD", "JPY")
    /\ dIn.market = <<"snapshot", [pts |-> 10000], None>>
    /\ dRet.bid = [e4 |-> 1000000]
    /\ dRet.offer = None

\* the first row of the positions table with the action's deal id (0: none)
FirstMatch ==
    LET rows == cIn.positions.rows
        hits == {i \in 1..Len(rows) : rows[i].dealId = cIn.position_action.dealId}
    IN  IF hits = {} THEN 0 ELSE CHOOSE i \in hits : \A j \in hits : i <= j

\* C12: when close_position finds the deal id in the positions table it
\* submits exactly one close order, for that deal id, in the direction
\* opposite to the one recorded in the first matching row (SELL for BUY, BUY
\* for SELL) and with that row's size; the action's own direction and size
\* are not used.
C12_CloseOrder ==
    cOp = "close_position" /\ cIn.positions.columns /\ FirstMatch > 0 =>
      LET row == cIn.positions.rows[FirstMatch]
      IN  /\ Len(cCalls) = 1
          /\ cCalls[1][1] = "close_open_position"
          /\ cCalls[1][2] = cIn.position_action.dealId
          /\ row.direction = "BUY" => cCalls[1][3] = "SELL"
          /\ row.direction = "SELL" => cCalls[1][3] = "BUY"
          /\ cCalls[1][4] = row.size
          /\ cBroker # NotCalled
C12_Witness ==
    /\ cOp = "close_position"
    /\ cIn.position_action.dealId = "D1"
    /\ cIn.position_action.direction = "BUY"
    /\ cIn.position_action.size = 1
    /\ cIn.positions.rows =
         << [dealId |-> "D1", direction |-> "BUY", size |-> 2],
            [dealId |-> "D1", direction |-> "SELL", size |-> 1] >>
    /\ cCalls = << <<"close_open_position", "D1", "SELL", 2>> >>

====
